---------------------------- MODULE Spec2Model ----------------------------
(***************************************************************************)
(* The import-rewriting scripts of frontend/scripts, modelled on the text  *)
(* of the files they rewrite.  A file's content is a string; the regular   *)
(* expressions of the scripts are matched character by character, as       *)
(* Python's re module matches them.                                        *)
(***************************************************************************)
EXTENDS Naturals, Integers, Sequences, FiniteSets, TLC

(***************************************************************************)
(* Strings.                                                                *)
(***************************************************************************)
Ch(s, i) == IF i >= 1 /\ i <= Len(s) THEN SubSeq(s, i, i) ELSE ""

StartsAt(s, i, lit) ==
  /\ i >= 1
  /\ i + Len(lit) - 1 <= Len(s)
  /\ SubSeq(s, i, i + Len(lit) - 1) = lit

\* \s of a Python str pattern
IsSpace(c) == c \in {" ", "\t", "\n", "\r", "\f"}

\* ['\"]
IsQuote(c) == c \in {"'", "\""}

RECURSIVE SkipSpaces(_, _)
\* \s* from position i, greedy: the first position that holds no whitespace
SkipSpaces(s, i) ==
  IF i <= Len(s) /\ IsSpace(Ch(s, i)) THEN SkipSpaces(s, i + 1) ELSE i

RECURSIVE SkipDots(_, _)
\* \.* from position i, greedy
SkipDots(s, i) ==
  IF i <= Len(s) /\ Ch(s, i) = "." THEN SkipDots(s, i + 1) ELSE i

\* the member of a one-element set.  In Only({e(x) : x \in {v}}) the name x
\* holds the value of v, worked out once, wherever e uses it.
Only(S) == CHOOSE x \in S : TRUE

\* the smallest member of a non-empty set of positions
Min(S) == CHOOSE i \in S : \A j \in S : i <= j

\* the first position >= i where lit starts, 0 when there is none
Find(s, i, lit) ==
  LET at == {j \in i..(Len(s) - Len(lit) + 1) : StartsAt(s, j, lit)}
  IN  IF at = {} THEN 0 ELSE Min(at)

Contains(s, lit) == Find(s, 1, lit) # 0

LowerCase == "abcdefghijklmnopqrstuvwxyz"
UpperCase == "ABCDEFGHIJKLMNOPQRSTUVWXYZ"

\* str.upper / str.lower of one character
ToUpper(c) ==
  IF \E k \in 1..26 : Ch(LowerCase, k) = c
  THEN Ch(UpperCase, CHOOSE k \in 1..26 : Ch(LowerCase, k) = c)
  ELSE c

ToLower(c) ==
  IF \E k \in 1..26 : Ch(UpperCase, k) = c
  THEN Ch(LowerCase, CHOOSE k \in 1..26 : Ch(UpperCase, k) = c)
  ELSE c

RECURSIVE LowerAll(_)
LowerAll(s) == IF s = "" THEN "" ELSE ToLower(Head(s)) \o LowerAll(Tail(s))

\* str.title() in the place of str.capitalize(): a letter that follows a
\* character that is no letter is upper-cased as well
Capitalize_title(w) ==
  LET IsLetter(c) == ToUpper(c) # c \/ ToLower(c) # c
      titled[k \in 0..Len(w)] ==
        IF k = 0 THEN ""
        ELSE titled[k - 1]
               \o (IF k = 1 \/ ~IsLetter(Ch(w, k - 1)) THEN ToUpper(Ch(w, k))
                   ELSE ToLower(Ch(w, k)))
  IN  titled[Len(w)]

\* str.capitalize(): the first character upper-cased, the rest lower-cased
Capitalize(w) == IF w = "" THEN "" ELSE ToUpper(Head(w)) \o LowerAll(Tail(w))

RECURSIVE LastSegment(_, _)
\* old_path.split('/')[-1]: the text after the last '/' (i counts down from Len)
LastSegment(s, i) ==
  IF i = 0 THEN s
  ELSE IF Ch(s, i) = "/" THEN SubSeq(s, i + 1, Len(s))
  ELSE LastSegment(s, i - 1)

RECURSIVE PascalFrom(_, _)
\* ''.join(word.capitalize() for word in name.split('-')), from position i
PascalFrom(name, i) ==
  IF i > Len(name) THEN ""
  ELSE LET d == Find(name, i, "-")
           e == IF d = 0 THEN Len(name) + 1 ELSE d
       IN  Capitalize(SubSeq(name, i, e - 1)) \o PascalFrom(name, e + 1)

\* component_name and pascal_name of a rule's old path
PascalName(old_path) == PascalFrom(LastSegment(old_path, Len(old_path)), 1)

(***************************************************************************)
(* The tables of the scripts.                                              *)
(***************************************************************************)
RENAMES ==
  <<
    <<"AIAssistantFAB", "ai-assistant-fab">>,
    <<"AIAssistantPanel", "ai-assistant-panel">>,
    <<"AIChat", "ai-chat">>,
    <<"ChallengeCard", "challenge-card">>,
    <<"ChallengeForm", "challenge-form">>,
    <<"ChallengeHistory", "challenge-history">>,
    <<"ChallengePanel", "challenge-panel">>,
    <<"ChallengeVotingWidget", "challenge-voting-widget">>,
    <<"Chat", "in-graph-chat">>,
    <<"ClusterView", "cluster-view">>,
    <<"CollaborationPanel", "collaboration-panel">>,
    <<"CommandMenu", "command-menu">>,
    <<"ConsensusVotingWidget", "consensus-voting-widget">>,
    <<"ContextMenu", "context-menu">>,
    <<"CustomNode", "custom-node">>,
    <<"EnhancedGraphCanvas", "enhanced-graph-canvas">>,
    <<"ErrorBoundary", "error-boundary">>,
    <<"FileViewerExample", "file-viewer-example">>,
    <<"FileViewerSidebar", "file-viewer-sidebar">>,
    <<"FilterPanel", "filter-panel">>,
    <<"GraphCanvas", "graph-canvas">>,
    <<"GraphEdge", "graph-edge">>,
    <<"GraphNode", "graph-node">>,
    <<"GraphSidebar", "graph-sidebar">>,
    <<"LayoutControls", "layout-controls">>,
    <<"LoadingStates", "loading-states">>,
    <<"LoginDialog", "login-dialog">>,
    <<"MethodologyProgressPanel", "methodology-progress-panel">>,
    <<"MethodologySelector", "methodology-selector">>,
    <<"Navigation", "navigation">>,
    <<"NotificationBell", "notification-bell">>,
    <<"PerformanceMonitor", "performance-monitor">>,
    <<"PromotionEligibilityBadge", "promotion-eligibility-badge">>,
    <<"PromotionEligibilityDashboard", "promotion-eligibility-dashboard">>,
    <<"PromotionLedgerTable", "promotion-ledger-table">>,
    <<"RemoteCursor", "remote-cursor">>,
    <<"ReputationBadge", "reputation-badge">>,
    <<"ThreadedComments", "threaded-comments">>,
    <<"TimelineView", "timeline-view">>,
    <<"VeracityBadge", "veracity-badge">>,
    <<"VeracityBreakdown", "veracity-breakdown">>,
    <<"VeracityIndicator", "veracity-indicator">>,
    <<"VeracityPanel", "veracity-badge">>,
    <<"VeracityTimeline", "veracity-timeline">>,
    <<"VisualizationControls", "visualization-controls">>
  >>

PATH_UPDATES ==
  <<
    <<"ai-assistant-fab", "ai-assistant/ai-assistant-fab">>,
    <<"ai-assistant-panel", "ai-assistant/ai-assistant-panel">>,
    <<"ai-chat", "ai-assistant/ai-chat">>,
    <<"credibility-badge", "credibility/credibility-badge">>,
    <<"veracity-badge", "credibility/veracity-badge">>,
    <<"veracity-panel", "credibility/veracity-panel">>,
    <<"veracity-timeline", "credibility/veracity-timeline">>,
    <<"veracity-breakdown", "credibility/veracity-breakdown">>,
    <<"veracity-indicator", "credibility/veracity-indicator">>,
    <<"promotion-eligibility-badge", "promotion/promotion-eligibility-badge">>,
    <<"promotion-eligibility-dashboard", "promotion/promotion-eligibility-dashboard">>,
    <<"consensus-voting-widget", "promotion/consensus-voting-widget">>,
    <<"promotion-ledger-table", "promotion/promotion-ledger-table">>,
    <<"methodology-progress-panel", "promotion/methodology-progress-panel">>,
    <<"media-upload-dialog", "media/media-upload-dialog">>,
    <<"media-processing-status", "media/media-processing-status">>,
    <<"file-upload-button", "media/file-upload-button">>,
    <<"file-attachment-list", "media/file-attachment-list">>,
    <<"media-library-integration", "media/media-library-integration">>,
    <<"universal-file-viewer", "media/universal-file-viewer">>,
    <<"file-viewer-example", "media/file-viewer-example">>,
    <<"file-viewer-sidebar", "media/file-viewer-sidebar">>,
    <<"collaboration-panel", "collaboration/collaboration-panel">>,
    <<"remote-cursor", "collaboration/remote-cursor">>,
    <<"in-graph-chat", "collaboration/in-graph-chat">>,
    <<"chat-sidebar", "collaboration/chat-sidebar">>,
    <<"chat-input", "collaboration/chat-input">>,
    <<"chat-message", "collaboration/chat-message">>,
    <<"threaded-comments", "collaboration/threaded-comments">>,
    <<"activity-feed", "collaboration/activity-feed">>,
    <<"activity-post", "collaboration/activity-post">>,
    <<"post-composer", "collaboration/post-composer">>,
    <<"cluster-view", "visualization/cluster-view">>,
    <<"timeline-view", "visualization/timeline-view">>,
    <<"visualization-controls", "visualization/visualization-controls">>,
    <<"layout-controls", "visualization/layout-controls">>,
    <<"methodology-selector", "methodology/methodology-selector">>,
    <<"badge-system", "shared/badge-system">>,
    <<"theme-toggle", "shared/theme-toggle">>,
    <<"logo", "shared/logo">>,
    <<"loading-spinner", "shared/loading-spinner">>,
    <<"error-boundary", "shared/error-boundary">>,
    <<"keyboard-shortcuts", "shared/keyboard-shortcuts">>,
    <<"search-bar", "shared/search-bar">>,
    <<"filter-panel", "shared/filter-panel">>,
    <<"sort-controls", "shared/sort-controls">>,
    <<"pagination", "shared/pagination">>,
    <<"confirmation-dialog", "shared/confirmation-dialog">>,
    <<"node-form", "forms/node-form">>,
    <<"edge-form", "forms/edge-form">>,
    <<"evidence-form", "forms/evidence-form">>,
    <<"citation-form", "forms/citation-form">>,
    <<"hypothesis-form", "forms/hypothesis-form">>,
    <<"inquiry-form", "forms/inquiry-form">>,
    <<"amendment-form", "forms/amendment-form">>,
    <<"challenge-form", "forms/challenge-form">>,
    <<"enriched-content", "content/enriched-content">>,
    <<"markdown-renderer", "content/markdown-renderer">>,
    <<"article-with-badges", "content/article-with-badges">>
  >>

IMPORT_FIXES_moved ==
  <<
    <<"@/components/challenge-card", "@/components/challenges">>,
    <<"@/components/challenge-form", "@/components/challenges">>,
    <<"@/components/challenge-history", "@/components/challenges">>,
    <<"@/components/challenge-panel", "@/components/challenges">>,
    <<"@/components/challenge-voting-widget", "@/components/challenges">>,
    <<"@/components/enhanced-graph-canvas", "@/components/graph/enhanced-graph-canvas">>,
    <<"@/components/custom-node", "@/components/graph/custom-node">>,
    <<"@/components/context-panel", "@/components/panels">>,
    <<"@/components/filter-panel", "@/components/panels">>,
    <<"@/components/graph-sidebar", "@/components/panels">>,
    <<"@/components/reputation-badge", "@/components/credibility">>,
    <<"@/components/providers", "@/components/layout/providers">>,
    <<"@/components/theme-provider", "@/components/layout/theme-provider">>
  >>

IMPORT_FIXES_remaining ==
  <<
    <<"@/components/add-comment-dialog", "@/components/forms">>,
    <<"@/components/add-reference-dialog", "@/components/forms">>,
    <<"@/components/upload-file-dialog", "@/components/forms">>,
    <<"@/components/ai-reference-processor-dialog", "@/components/forms">>,
    <<"@/components/node-link-combobox", "@/components/shared">>,
    <<"@/components/text-selection-menu", "@/components/shared">>,
    <<"@/components/citation-panel", "@/components/content">>,
    <<"@/components/amendment-dialog", "@/components/content">>,
    <<"@/components/node-detail-dialog", "@/components/content">>,
    <<"@/components/veracity-form", "@/components/credibility">>
  >>

FIXES ==
  <<
    <<"@/components/create-article-dialog", "@/components/forms">>,
    <<"@/components/login-dialog", "@/components/forms">>,
    <<"./create-node-relationship-dialog", "../forms/create-node-relationship-dialog">>
  >>

COMPONENT_RENAMES ==
  <<
    <<"AIAssistantFAB.tsx", "ai-assistant-fab.tsx">>,
    <<"AIAssistantPanel.tsx", "ai-assistant-panel.tsx">>,
    <<"AIChat.tsx", "ai-chat.tsx">>,
    <<"ChallengeCard.tsx", "challenge-card.tsx">>,
    <<"ChallengeForm.tsx", "challenge-form.tsx">>,
    <<"ChallengeHistory.tsx", "challenge-history.tsx">>,
    <<"ChallengePanel.tsx", "challenge-panel.tsx">>,
    <<"ChallengeVotingWidget.tsx", "challenge-voting-widget.tsx">>,
    <<"Chat.tsx", "in-graph-chat.tsx">>,
    <<"ClusterView.tsx", "cluster-view.tsx">>,
    <<"CollaborationPanel.tsx", "collaboration-panel.tsx">>,
    <<"CommandMenu.tsx", "command-menu.tsx">>,
    <<"ConsensusVotingWidget.tsx", "consensus-voting-widget.tsx">>,
    <<"ContextMenu.tsx", "context-menu.tsx">>,
    <<"CustomNode.tsx", "custom-node.tsx">>,
    <<"EnhancedGraphCanvas.tsx", "enhanced-graph-canvas.tsx">>,
    <<"ErrorBoundary.tsx", "error-boundary.tsx">>,
    <<"FileViewerExample.tsx", "file-viewer-example.tsx">>,
    <<"FileViewerSidebar.tsx", "file-viewer-sidebar.tsx">>,
    <<"FilterPanel.tsx", "filter-panel.tsx">>,
    <<"GraphCanvas.tsx", "graph-canvas.tsx">>,
    <<"GraphEdge.tsx", "graph-edge.tsx">>,
    <<"GraphNode.tsx", "graph-node.tsx">>,
    <<"GraphSidebar.tsx", "graph-sidebar.tsx">>,
    <<"LayoutControls.tsx", "layout-controls.tsx">>,
    <<"LoadingStates.tsx", "loading-states.tsx">>,
    <<"LoginDialog.tsx", "login-dialog.tsx">>,
    <<"MethodologyProgressPanel.tsx", "methodology-progress-panel.tsx">>,
    <<"MethodologySelector.tsx", "methodology-selector.tsx">>,
    <<"Navigation.tsx", "navigation.tsx">>,
    <<"NotificationBell.tsx", "notification-bell.tsx">>,
    <<"PerformanceMonitor.tsx", "performance-monitor.tsx">>,
    <<"PromotionEligibilityBadge.tsx", "promotion-eligibility-badge.tsx">>,
    <<"PromotionEligibilityDashboard.tsx", "promotion-eligibility-dashboard.tsx">>,
    <<"PromotionLedgerTable.tsx", "promotion-ledger-table.tsx">>,
    <<"RemoteCursor.tsx", "remote-cursor.tsx">>,
    <<"ReputationBadge.tsx", "reputation-badge.tsx">>,
    <<"ThreadedComments.tsx", "threaded-comments.tsx">>,
    <<"TimelineView.tsx", "timeline-view.tsx">>,
    <<"VeracityBadge.tsx", "veracity-badge.tsx">>,
    <<"VeracityBreakdown.tsx", "veracity-breakdown.tsx">>,
    <<"VeracityIndicator.tsx", "veracity-indicator.tsx">>,
    <<"VeracityPanel.tsx", "veracity-panel.tsx">>,
    <<"VeracityTimeline.tsx", "veracity-timeline.tsx">>,
    <<"VisualizationControls.tsx", "visualization-controls.tsx">>
  >>

STORY_RENAMES ==
  <<
    <<"ChallengeCard.stories.tsx", "challenge-card.stories.tsx">>,
    <<"ChallengePanel.stories.tsx", "challenge-panel.stories.tsx">>,
    <<"ChallengeVotingWidget.stories.tsx", "challenge-voting-widget.stories.tsx">>,
    <<"GraphCanvas.stories.tsx", "graph-canvas.stories.tsx">>,
    <<"MethodologyProgressPanel.stories.tsx", "methodology-progress-panel.stories.tsx">>,
    <<"MethodologySelector.stories.tsx", "methodology-selector.stories.tsx">>,
    <<"PromotionEligibilityBadge.stories.tsx", "promotion-eligibility-badge.stories.tsx">>,
    <<"PromotionEligibilityDashboard.stories.tsx", "promotion-eligibility-dashboard.stories.tsx">>,
    <<"ReputationBadge.stories.tsx", "reputation-badge.stories.tsx">>,
    <<"ConsensusVotingWidget.stories.tsx", "consensus-voting-widget.stories.tsx">>,
    <<"CollaborationPanel.stories.tsx", "collaboration-panel.stories.tsx">>,
    <<"VeracityBadge.stories.tsx", "veracity-badge.stories.tsx">>,
    <<"VeracityBreakdown.stories.tsx", "veracity-breakdown.stories.tsx">>,
    <<"VeracityTimeline.stories.tsx", "veracity-timeline.stories.tsx">>
  >>

COMPONENT_MOVES ==
  <<
    <<"ai-assistant-fab.tsx", "ai-assistant">>,
    <<"ai-assistant-panel.tsx", "ai-assistant">>,
    <<"ai-chat.tsx", "ai-assistant">>,
    <<"credibility-badge.tsx", "credibility">>,
    <<"veracity-badge.tsx", "credibility">>,
    <<"veracity-panel.tsx", "credibility">>,
    <<"veracity-timeline.tsx", "credibility">>,
    <<"veracity-breakdown.tsx", "credibility">>,
    <<"veracity-indicator.tsx", "credibility">>,
    <<"promotion-eligibility-badge.tsx", "promotion">>,
    <<"promotion-eligibility-dashboard.tsx", "promotion">>,
    <<"consensus-voting-widget.tsx", "promotion">>,
    <<"promotion-ledger-table.tsx", "promotion">>,
    <<"methodology-progress-panel.tsx", "promotion">>,
    <<"media-upload-dialog.tsx", "media">>,
    <<"media-processing-status.tsx", "media">>,
    <<"file-upload-button.tsx", "media">>,
    <<"file-attachment-list.tsx", "media">>,
    <<"media-library-integration.tsx", "media">>,
    <<"universal-file-viewer.tsx", "media">>,
    <<"file-viewer-example.tsx", "media">>,
    <<"file-viewer-sidebar.tsx", "media">>,
    <<"collaboration-panel.tsx", "collaboration">>,
    <<"remote-cursor.tsx", "collaboration">>,
    <<"in-graph-chat.tsx", "collaboration">>,
    <<"chat-sidebar.tsx", "collaboration">>,
    <<"chat-input.tsx", "collaboration">>,
    <<"chat-message.tsx", "collaboration">>,
    <<"threaded-comments.tsx", "collaboration">>,
    <<"activity-feed.tsx", "collaboration">>,
    <<"activity-post.tsx", "collaboration">>,
    <<"post-composer.tsx", "collaboration">>,
    <<"cluster-view.tsx", "visualization">>,
    <<"timeline-view.tsx", "visualization">>,
    <<"visualization-controls.tsx", "visualization">>,
    <<"layout-controls.tsx", "visualization">>,
    <<"methodology-selector.tsx", "methodology">>,
    <<"error-boundary.tsx", "shared">>,
    <<"loading-states.tsx", "shared">>,
    <<"performance-monitor.tsx", "shared">>,
    <<"command-menu.tsx", "shared">>,
    <<"context-menu.tsx", "shared">>,
    <<"notification-bell.tsx", "shared">>,
    <<"node-mention-combobox.tsx", "shared">>,
    <<"node-link-combobox.tsx", "shared">>,
    <<"node-link-card.tsx", "shared">>,
    <<"text-selection-menu.tsx", "shared">>,
    <<"navigation.tsx", "shared">>,
    <<"markdown-editor.tsx", "forms">>,
    <<"add-comment-dialog.tsx", "forms">>,
    <<"add-reference-dialog.tsx", "forms">>,
    <<"create-article-dialog.tsx", "forms">>,
    <<"create-node-relationship-dialog.tsx", "forms">>,
    <<"upload-file-dialog.tsx", "forms">>,
    <<"ai-reference-processor-dialog.tsx", "forms">>,
    <<"login-dialog.tsx", "forms">>,
    <<"enriched-content.tsx", "content">>,
    <<"article-with-badges.tsx", "content">>,
    <<"image-carousel.tsx", "content">>
  >>

STORY_MOVES ==
  <<
    <<"ai-assistant-panel.stories.tsx", "ai-assistant">>,
    <<"ai-chat.stories.tsx", "ai-assistant">>,
    <<"veracity-badge.stories.tsx", "credibility">>,
    <<"veracity-breakdown.stories.tsx", "credibility">>,
    <<"veracity-timeline.stories.tsx", "credibility">>,
    <<"promotion-eligibility-badge.stories.tsx", "promotion">>,
    <<"promotion-eligibility-dashboard.stories.tsx", "promotion">>,
    <<"consensus-voting-widget.stories.tsx", "promotion">>,
    <<"methodology-progress-panel.stories.tsx", "promotion">>,
    <<"collaboration-panel.stories.tsx", "collaboration">>,
    <<"methodology-selector.stories.tsx", "methodology">>
  >>

FILES_TO_FIX ==
  <<
    <<"src/components/ai-assistant/index.ts", << <<"./ai-assistant/", "./">> >> >>,
    <<"src/components/collaboration/index.ts", << <<"./collaboration/", "./">> >> >>,
    <<"src/components/media/index.ts", << <<"./media/", "./">> >> >>,
    <<"src/components/promotion/index.ts", << <<"./promotion/", "./">> >> >>,
    <<"src/components/credibility/index.ts", << <<"./credibility/", "./">> >> >>
  >>

(***************************************************************************)
(* The regular expressions of the scripts.  A pattern is a record; Match   *)
(* gives, for a start position, the end of the match and the text that     *)
(* re.sub puts in its place (end = 0: no match at that position).          *)
(***************************************************************************)
NoMatch == [end |-> 0, repl |-> ""]

\* from\s+['\"]  : the position after the quote, 0 when it does not match at i
HeadFrom(s, i) ==
  IF ~StartsAt(s, i, "from") THEN 0
  ELSE LET j == SkipSpaces(s, i + 4)
       IN  IF j > i + 4 /\ IsQuote(Ch(s, j)) THEN j + 1 ELSE 0

\* import\(['\"]  : the position after the quote, 0 when it does not match at i
HeadDynamic(s, i) ==
  IF StartsAt(s, i, "import(") /\ IsQuote(Ch(s, i + 7)) THEN i + 8 ELSE 0

\* @/components/  : the position after it
PrefixAlias(s, j) == IF StartsAt(s, j, "@/components/") THEN j + 13 ELSE 0

\* \.+/  : one run of dots and one slash; the position after the slash
PrefixDots(s, j) ==
  LET d == SkipDots(s, j)
  IN  IF d > j /\ Ch(s, d) = "/" THEN d + 1 ELSE 0

\* (from\s+['\"]@/components/)OLD(['\"]) and its three siblings: groups 1 and 2
\* are put back unchanged, OLD becomes NEW
MatchSpecifier(pat, s, i) ==
  LET h == IF pat.head = "from" THEN HeadFrom(s, i) ELSE HeadDynamic(s, i)
      p == IF h = 0 THEN 0
           ELSE IF pat.prefix = "alias" THEN PrefixAlias(s, h)
           ELSE PrefixDots(s, h)
      q == p + Len(pat.old)
  IN  IF p # 0 /\ StartsAt(s, p, pat.old) /\ IsQuote(Ch(s, q))
      THEN [end |-> q, repl |-> SubSeq(s, i, p - 1) \o pat.new \o Ch(s, q)]
      ELSE NoMatch

\* import\s+\{  : the position after the brace
ImportBrace(s, i) ==
  IF ~StartsAt(s, i, "import") THEN 0
  ELSE LET j == SkipSpaces(s, i + 6)
       IN  IF j > i + 6 /\ Ch(s, j) = "{" THEN j + 1 ELSE 0

\* \}\s+from\s+['\"]OLD['\"] at position c: the position of the closing quote
TailFrom(s, c, old) ==
  IF Ch(s, c) # "}" THEN 0
  ELSE LET f == SkipSpaces(s, c + 1)
           h == IF f > c + 1 THEN HeadFrom(s, f) ELSE 0
           q == h + Len(old)
       IN  IF h # 0 /\ StartsAt(s, h, old) /\ IsQuote(Ch(s, q)) THEN q ELSE 0

\* import\s+\{\s*([^}]*NAME[^}]*)\s*\}\s+from\s+['\"]OLD['\"]
\*   ->  import { \1 } from 'NEW'
\* [^}]* is greedy: group 1 runs from the first non-blank after the brace up
\* to the closing brace, trailing blanks included.
MatchNamedContaining(pat, s, i) ==
  LET b == ImportBrace(s, i)
      g == IF b = 0 THEN 0 ELSE SkipSpaces(s, b)
      c == IF b = 0 THEN 0 ELSE Find(s, g, "}")
      e == IF c = 0 THEN 0 ELSE TailFrom(s, c, pat.old)
  IN  IF e # 0 /\ Contains(SubSeq(s, g, c - 1), pat.name)
      THEN [end |-> e,
            repl |-> "import { " \o SubSeq(s, g, c - 1) \o " } from '"
                       \o pat.new \o "'"]
      ELSE NoMatch

\* import\s+\{\s*NAME\s*\}\s+from\s+['\"]OLD['\"]  ->  import { NAME } from 'NEW'
MatchNamedExact(pat, s, i) ==
  LET b == ImportBrace(s, i)
      g == IF b = 0 THEN 0 ELSE SkipSpaces(s, b)
      c == IF b # 0 /\ StartsAt(s, g, pat.name)
           THEN SkipSpaces(s, g + Len(pat.name)) ELSE 0
      e == IF c = 0 THEN 0 ELSE TailFrom(s, c, pat.old)
  IN  IF e # 0
      THEN [end |-> e,
            repl |-> "import { " \o pat.name \o " } from '" \o pat.new \o "'"]
      ELSE NoMatch

\* import\s+\{\s*([^}]+)\s*\}\s+from\s+['\"]OLD['\"]  ->  import { \1 } from 'NEW'
\* [^}]+ needs one character: between blank-only braces \s* gives the last
\* blank back to the group.
MatchNamedAny(pat, s, i) ==
  LET b == ImportBrace(s, i)
      c == IF b = 0 THEN 0 ELSE Find(s, b, "}")
      g == IF c = 0 THEN 0
           ELSE IF SkipSpaces(s, b) < c THEN SkipSpaces(s, b) ELSE c - 1
      e == IF c = 0 \/ c = b THEN 0 ELSE TailFrom(s, c, pat.old)
  IN  IF e # 0
      THEN [end |-> e,
            repl |-> "import { " \o SubSeq(s, g, c - 1) \o " } from '"
                       \o pat.new \o "'"]
      ELSE NoMatch

\* import\s+NAME\s+from\s+['\"]OLD['\"]  ->  import NAME from 'NEW'
MatchDefault(pat, s, i) ==
  LET n == IF StartsAt(s, i, "import") THEN SkipSpaces(s, i + 6) ELSE 0
      f == IF n > i + 6 /\ StartsAt(s, n, pat.name)
           THEN SkipSpaces(s, n + Len(pat.name)) ELSE 0
      h == IF f # 0 /\ f > n + Len(pat.name) THEN HeadFrom(s, f) ELSE 0
      q == h + Len(pat.old)
  IN  IF h # 0 /\ StartsAt(s, h, pat.old) /\ IsQuote(Ch(s, q))
      THEN [end |-> q,
            repl |-> "import " \o pat.name \o " from '" \o pat.new \o "'"]
      ELSE NoMatch

\* str.replace's literal: OLD -> NEW
MatchLiteral(pat, s, i) ==
  IF StartsAt(s, i, pat.old)
  THEN [end |-> i + Len(pat.old) - 1, repl |-> pat.new]
  ELSE NoMatch

Match(pat, s, i) ==
  CASE pat.kind = "specifier"       -> MatchSpecifier(pat, s, i)
    [] pat.kind = "named_containing" -> MatchNamedContaining(pat, s, i)
    [] pat.kind = "named_exact"      -> MatchNamedExact(pat, s, i)
    [] pat.kind = "named_any"        -> MatchNamedAny(pat, s, i)
    [] pat.kind = "default"          -> MatchDefault(pat, s, i)
    [] pat.kind = "literal"          -> MatchLiteral(pat, s, i)

\* Every pattern of the scripts begins with the literal "from" or "import":
\* a match starts at an occurrence of one of them.  A text is a content with
\* these positions, found once for all the patterns tried on it.
Anchors(s) ==
  {j \in 1..Len(s) : StartsAt(s, j, "from") \/ StartsAt(s, j, "import")}

Text(s) == [s |-> s, at |-> Anchors(s)]

\* the matches that start at or after i: [at, end, repl]
Matches(pat, t, i) ==
  { [at |-> x[1], end |-> x[2].end, repl |-> x[2].repl] :
      x \in { y \in { << j, Match(pat, t.s, j) >> : j \in {a \in t.at : a >= i} } :
                y[2].end # 0 } }

\* the leftmost match that starts at or after i; at = 0: there is none
NextMatch(pat, t, i) ==
  Only({ IF ms = {} THEN [at |-> 0, end |-> 0, repl |-> ""]
         ELSE CHOOSE m \in ms : \A o \in ms : m.at <= o.at :
           ms \in {Matches(pat, t, i)} })

\* re.search(pattern, content)
ReSearch(pat, t) == NextMatch(pat, t, 1).at # 0

RECURSIVE ReSubFrom(_, _, _)
\* re.sub / str.replace from position i: every non-overlapping match, left to
\* right, replaced; the scan goes on after the end of each match
ReSubFrom(pat, t, i) ==
  Only({ IF m.at = 0 THEN SubSeq(t.s, i, Len(t.s))
         ELSE SubSeq(t.s, i, m.at - 1) \o m.repl
                \o ReSubFrom(pat, t, m.end + 1) :
           m \in {NextMatch(pat, t, i)} })

\* re.sub(pattern, replacement, content)
ReSub(pat, t) ==
  Only({ IF new_content = t.s THEN t ELSE Text(new_content) :
           new_content \in {ReSubFrom(pat, t, 1)} })

(***************************************************************************)
(* update-imports.py                                                       *)
(***************************************************************************)
\* a function on 1..n as a tuple: its entries are worked out once
Tuple(f) == << >> \o f

SpecifierPattern(head, prefix, old, new) ==
  [kind |-> "specifier", head |-> head, prefix |-> prefix,
   old |-> old, new |-> new]

\* pattern1 .. pattern4 of one (old_name, new_name)
Patterns_update_imports(rule) ==
  << SpecifierPattern("from", "alias", rule[1], rule[2]),
     SpecifierPattern("from", "dots", rule[1], rule[2]),
     SpecifierPattern("import(", "alias", rule[1], rule[2]),
     SpecifierPattern("import(", "dots", rule[1], rule[2]) >>

\* the patterns the loop body builds, entry by entry of RENAMES
RenamePatterns == 
  Tuple([k \in 1..Len(RENAMES) |-> Patterns_update_imports(RENAMES[k])])

RECURSIVE SearchAndSub(_, _, _)
\* if re.search(pattern, content): content = re.sub(...); modified = True
SearchAndSub(pats, k, st) ==
  IF k > Len(pats) THEN st
  ELSE IF ReSearch(pats[k], st.text)
  THEN Only({ SearchAndSub(pats, k + 1, [text |-> t, modified |-> TRUE]) :
                t \in {ReSub(pats[k], st.text)} })
  ELSE SearchAndSub(pats, k + 1, st)

RECURSIVE ForRenames(_, _, _, _)
\* for old_name, new_name in RENAMES.items(): ...   The entries lo..hi, in
\* order: those of the first half, then those of the second half on what the
\* first half made.
ForRenames(table, lo, hi, st) ==
  IF lo > hi THEN st
  ELSE IF lo = hi THEN SearchAndSub(table[lo], 1, st)
  ELSE Only({ ForRenames(table, (lo + hi) \div 2 + 1, hi, next) :
                next \in {ForRenames(table, lo, (lo + hi) \div 2, st)} })

\* update_file up to the write: the new content, whether the file is
\* written, and the value update_file returns when the write succeeds
update_file_update_imports(content) ==
  Only({ [content |-> st.text.s, write |-> st.modified,
          result |-> IF st.modified THEN 1 ELSE 0] :
           st \in { ForRenames(RenamePatterns, 1, Len(RenamePatterns),
                               [text |-> t, modified |-> FALSE]) :
                      t \in {Text(content)} } })

(***************************************************************************)
(* update-feature-imports.py                                               *)
(***************************************************************************)
\* pattern1 .. pattern3 of one (old_path, new_path)
Patterns_update_feature_imports(rule) ==
  << SpecifierPattern("from", "alias", rule[1], rule[2]),
     SpecifierPattern("from", "dots", rule[1], rule[2]),
     SpecifierPattern("import(", "alias", rule[1], rule[2]) >>

\* the patterns the loop body builds, entry by entry of PATH_UPDATES
PathUpdatePatterns == 
  Tuple([k \in 1..Len(PATH_UPDATES) |-> Patterns_update_feature_imports(PATH_UPDATES[k])])

RECURSIVE SubAndCount(_, _, _)
\* new_content = re.sub(...); if new_content != content: updated_count += 1
SubAndCount(pats, k, st) ==
  IF k > Len(pats) THEN st
  ELSE Only({ IF new_content.s # st.text.s
              THEN SubAndCount(pats, k + 1,
                     [text |-> new_content,
                      updated_count |-> st.updated_count + 1])
              ELSE SubAndCount(pats, k + 1, st) :
                new_content \in {ReSub(pats[k], st.text)} })

RECURSIVE ForPathUpdates(_, _, _, _)
\* for old_path, new_path in PATH_UPDATES.items(): ...   The entries lo..hi,
\* in order: the first half, then the second half on what the first made.
ForPathUpdates(table, lo, hi, st) ==
  IF lo > hi THEN st
  ELSE IF lo = hi THEN SubAndCount(table[lo], 1, st)
  ELSE Only({ ForPathUpdates(table, (lo + hi) \div 2 + 1, hi, next) :
                next \in {ForPathUpdates(table, lo, (lo + hi) \div 2, st)} })

update_file_update_feature_imports(content) ==
  Only({ [content |-> st.text.s, write |-> st.text.s # content,
          result |-> IF st.text.s # content THEN st.updated_count ELSE 0] :
           st \in { ForPathUpdates(PathUpdatePatterns, 1, Len(PathUpdatePatterns),
                                   [text |-> t, updated_count |-> 0]) :
                      t \in {Text(content)} } })

(***************************************************************************)
(* fix-moved-imports.py, fix-remaining-imports.py,                         *)
(* fix-all-remaining-imports.py                                            *)
(***************************************************************************)
NamedPattern(kind, name, old, new) ==
  [kind |-> kind, name |-> name, old |-> old, new |-> new]

\* pattern and pattern2 of one (old_path, new_path) of fix-moved-imports
Patterns_fix_moved_imports(rule) ==
  << NamedPattern("named_containing", PascalName(rule[1]), rule[1], rule[2]),
     NamedPattern("default", PascalName(rule[1]), rule[1], rule[2]) >>

\* pattern of one (old_path, new_path) of fix-remaining-imports
Patterns_fix_remaining_imports(rule) ==
  << NamedPattern("named_exact", PascalName(rule[1]), rule[1], rule[2]) >>

\* if old_path.startswith('@/components/'): ... else: ...
Patterns_fix_all_remaining_imports(rule) ==
  IF StartsAt(rule[1], 1, "@/components/")
  THEN << NamedPattern("named_exact", PascalName(rule[1]), rule[1], rule[2]) >>
  ELSE << NamedPattern("named_any", "", rule[1], rule[2]) >>

\* the patterns the loop bodies build, entry by entry of the tables
MovedPatterns == 
  Tuple([k \in 1..Len(IMPORT_FIXES_moved) |-> Patterns_fix_moved_imports(IMPORT_FIXES_moved[k])])

RemainingPatterns == 
  Tuple([k \in 1..Len(IMPORT_FIXES_remaining) |-> Patterns_fix_remaining_imports(IMPORT_FIXES_remaining[k])])

AllRemainingPatterns == 
  Tuple([k \in 1..Len(FIXES) |-> Patterns_fix_all_remaining_imports(FIXES[k])])

RECURSIVE SubAll(_, _, _)
\* content = re.sub(pattern, replacement, content), pattern after pattern
SubAll(pats, k, text) ==
  IF k > Len(pats) THEN text
  ELSE Only({ IF new_content.s # text.s THEN SubAll(pats, k + 1, new_content)
              ELSE SubAll(pats, k + 1, text) :
                new_content \in {ReSub(pats[k], text)} })

RECURSIVE ForFixes(_, _, _, _)
\* for old_path, new_path in IMPORT_FIXES.items(): ... / in FIXES: ... /
\* in replacements: ...   The entries lo..hi, in order: the first half, then
\* the second half on what the first made.
ForFixes(table, lo, hi, text) ==
  IF lo > hi THEN text
  ELSE IF lo = hi THEN SubAll(table[lo], 1, text)
  ELSE Only({ ForFixes(table, (lo + hi) \div 2 + 1, hi, next) :
                next \in {ForFixes(table, lo, (lo + hi) \div 2, text)} })

\* if content != original_content: write, return True
WriteIfChanged(original_content, text) ==
  [content |-> text.s, write |-> text.s # original_content,
   result |-> IF text.s # original_content THEN 1 ELSE 0]

\* Text(content), for the loops over the tables
Read(content) == {Text(content)}

update_file_fix_moved_imports(content) ==
  Only({ WriteIfChanged(content, text) :
           text \in {ForFixes(MovedPatterns, 1, Len(MovedPatterns), t) : t \in Read(content)} })

update_file_fix_remaining_imports(content) ==
  Only({ WriteIfChanged(content, text) :
           text \in {ForFixes(RemainingPatterns, 1, Len(RemainingPatterns), t) : t \in Read(content)} })

update_file_fix_all_remaining_imports(content) ==
  Only({ WriteIfChanged(content, text) :
           text \in {ForFixes(AllRemainingPatterns, 1, Len(AllRemainingPatterns), t) : t \in Read(content)} })

(***************************************************************************)
(* fix-barrel-exports.py                                                   *)
(***************************************************************************)
\* content.replace(f"from '{old_path}", f"from '{new_path}")
Patterns_fix_barrel_exports(rule) ==
  << [kind |-> "literal", old |-> "from '" \o rule[1],
      new |-> "from '" \o rule[2]] >>

fix_file(content, replacements) ==
  Only({ WriteIfChanged(content, text) :
           text \in { ForFixes(pats, 1, Len(pats), t) :
                        t \in Read(content),
                        pats \in {Tuple([k \in 1..Len(replacements) |->
                                    Patterns_fix_barrel_exports(replacements[k])])} } })

(***************************************************************************)
(* The scripts as programs: main walks the tree and calls update_file on   *)
(* every file of the walk.                                                 *)
(***************************************************************************)
Scripts ==
  { "update-imports", "update-feature-imports", "fix-moved-imports",
    "fix-remaining-imports", "fix-all-remaining-imports",
    "fix-barrel-exports" }

EndsWith(s, suffix) ==
  Len(suffix) <= Len(s) /\ SubSeq(s, Len(s) - Len(suffix) + 1, Len(s)) = suffix

RECURSIVE Filter(_, _, _)
\* the paths of seq, from k on, that end with one of the suffixes
Filter(seq, k, suffixes) ==
  IF k > Len(seq) THEN << >>
  ELSE (IF \E x \in suffixes : EndsWith(seq[k], x) THEN << seq[k] >> ELSE << >>)
         \o Filter(seq, k + 1, suffixes)

RECURSIVE BarrelFiles(_, _)
\* for filepath, replacements in FILES_TO_FIX.items(): if os.path.exists(filepath)
BarrelFiles(tree, k) ==
  IF k > Len(FILES_TO_FIX) THEN << >>
  ELSE (IF \E j \in 1..Len(tree) : tree[j] = FILES_TO_FIX[k][1]
        THEN << FILES_TO_FIX[k][1] >> ELSE << >>)
         \o BarrelFiles(tree, k + 1)

\* the files main hands to update_file, in order
Walk(s, tree) ==
  CASE s = "update-imports" ->
         \* for ext in ['*.ts', '*.tsx', '*.js', '*.jsx']: Path('src').rglob(ext)
         Filter(tree, 1, {".ts"}) \o Filter(tree, 1, {".tsx"})
           \o Filter(tree, 1, {".js"}) \o Filter(tree, 1, {".jsx"})
    [] s = "fix-barrel-exports" -> BarrelFiles(tree, 1)
    [] OTHER ->
         \* os.walk("src"); if file.endswith(('.ts', '.tsx'))
         Filter(tree, 1, {".ts", ".tsx"})

\* the replacements FILES_TO_FIX holds for a path
Replacements(path) ==
  (CHOOSE e \in {FILES_TO_FIX[k] : k \in 1..Len(FILES_TO_FIX)} : e[1] = path)[2]

\* update_file(filepath) / fix_file(filepath, replacements) of script s, from
\* the content read to the decision to write
Rewrite(s, path, content) ==
  CASE s = "update-imports" -> update_file_update_imports(content)
    [] s = "update-feature-imports" -> update_file_update_feature_imports(content)
    [] s = "fix-moved-imports" -> update_file_fix_moved_imports(content)
    [] s = "fix-remaining-imports" -> update_file_fix_remaining_imports(content)
    [] s = "fix-all-remaining-imports" ->
         update_file_fix_all_remaining_imports(content)
    [] s = "fix-barrel-exports" -> fix_file(content, Replacements(path))

(***************************************************************************)
(* Bounds and inputs.                                                      *)
(***************************************************************************)
\* the number of times the script is started
MaxRuns == 3
\* the number of read or write errors the file system raises
MaxFaults == 1
\* the number of times a run is interrupted or killed
MaxStops == 1

\* the tree under src/
Tree ==
  << "src/app/page.tsx", "src/components/ai-assistant/index.ts",
     "src/components/media/index.ts", "src/lib/legacy.js" >>

Paths == {Tree[k] : k \in 1..Len(Tree)}

\* file contents the scripts are run on
Inputs(s) ==
  CASE s = "update-imports" ->
         { "import { ChallengeCard } from '@/components/ChallengeCard'",
           "import Chat from \"../Chat\"\nconst P = import('../../VeracityPanel')",
           "// moved: from '@/components/Chat'",
           "export { ClusterView } from './ClusterView'\nconst c = import('@/components/AIChat')" }
    [] s = "update-feature-imports" ->
         { "import { AiChat } from '@/components/ai-chat'",
           "import Logo from './logo'\nexport * from \"../logo\"",
           "const m = import('./ai-chat')",
           "// from '@/components/logo'" }
    [] s = "fix-moved-imports" ->
         { "import { ChallengeCard } from '@/components/challenge-card'",
           "import { ChallengeCard, FilterPanel } from '@/components/challenge-card'",
           "import FilterPanel from \"@/components/filter-panel\"",
           "// import { ChallengeCard } from '@/components/challenge-card'",
           "export { ChallengeCard } from '@/components/challenge-card'" }
    [] s = "fix-remaining-imports" ->
         { "import { CitationPanel } from '@/components/citation-panel'",
           "import { CitationPanel, NodeLinkCombobox } from '@/components/citation-panel'",
           "import {VeracityForm} from \"@/components/veracity-form\"",
           "// import { CitationPanel } from '@/components/citation-panel'" }
    [] s = "fix-all-remaining-imports" ->
         { "import { LoginDialog } from '@/components/login-dialog'",
           "import { A, B } from './create-node-relationship-dialog'",
           "import LoginDialog from '@/components/login-dialog'",
           "// import { LoginDialog } from '@/components/login-dialog'" }
    [] s = "fix-barrel-exports" ->
         { "export * from './ai-assistant/ai-chat'",
           "export * from './ai-assistant/ai-assistant/ai-chat'",
           "export * from './ai-chat'",
           "// from './ai-assistant/ai-chat'" }

\* a file the model does not vary holds this content
Plain == "import Chat from '../Chat'"

InWalk(s, path) == \E k \in 1..Len(Walk(s, Tree)) : Walk(s, Tree)[k] = path

\* the inputs the second file of a walk takes: one the script rewrites and
\* one it leaves alone
OtherInputs(s) ==
  CASE s = "update-imports" ->
         { "import { ChallengeCard } from '@/components/ChallengeCard'",
           "export { ClusterView } from './cluster-view'" }
    [] s = "update-feature-imports" ->
         { "import { AiChat } from '@/components/ai-chat'",
           "const m = import('./ai-chat')" }
    [] s = "fix-moved-imports" ->
         { "import FilterPanel from \"@/components/filter-panel\"",
           "export { ChallengeCard } from '@/components/challenge-card'" }
    [] s = "fix-remaining-imports" ->
         { "import {VeracityForm} from \"@/components/veracity-form\"",
           "import { CitationPanel, NodeLinkCombobox } from '@/components/citation-panel'" }
    [] s = "fix-all-remaining-imports" ->
         { "import { A, B } from './create-node-relationship-dialog'",
           "import LoginDialog from '@/components/login-dialog'" }
    [] s = "fix-barrel-exports" -> Inputs(s)

\* the inputs of the barrel file of media
MediaInputs(s) ==
  IF s = "fix-barrel-exports"
  THEN { "export * from './media/media-upload-dialog'",
         "export * from './media-upload-dialog'" }
  ELSE {Plain}

\* the trees a script is run on
InitialTrees(s) ==
  { [p \in Paths |->
       CASE p = "src/app/page.tsx" -> a
         [] p = "src/components/ai-assistant/index.ts" -> b
         [] p = "src/components/media/index.ts" -> c
         [] OTHER -> Plain] :
    a \in (IF InWalk(s, "src/app/page.tsx") THEN Inputs(s) ELSE {Plain}),
    b \in OtherInputs(s),
    c \in MediaInputs(s) }

(***************************************************************************)
(* State.                                                                  *)
(***************************************************************************)
VARIABLES
  script,         \* the script that is run
  fs,             \* the stored content of every file of the tree
  orig,           \* the content of every file before the first run
  start,          \* the content of every file when the current run started
  once,           \* what update_file makes of every file of orig
  expect,         \* what update_file makes of every file of start
  run,            \* the number of the current run
  pc,             \* "idle": main is between two files; "writing": update_file
                  \* has opened the file for writing; "done", "interrupted",
                  \* "killed": how the run ended
  pos,            \* the index in the walk of the file main handles next
  buf,            \* what update_file is about to write and to return
  files_updated,  \* main's counter
  counted,        \* the files main counted as updated in this run
  errors,         \* the files whose error update_file printed in this run
  faults,         \* the errors raised so far
  stops,          \* the interruptions so far
  hist,           \* how each earlier run ended
  total_updates   \* main's second counter (update-feature-imports)

\* one file taken through several scripts, each run with a table
VARIABLES
  source,         \* the content of the file before the first script
  file,           \* the stored content of the file
  ran,            \* the scripts run so far, each with the table it read
  printed         \* the lines main and update_file have printed for the file

\* the derivation of the binding name of one entry of a table
VARIABLES
  stem,           \* the file stem the entry's old path ends with
  old_path,       \* the old path of the entry
  pascal_name,    \* the name update_file derived from it
  by              \* the script whose update_file derived it, "" before

\* the scripts run one after another on a project
VARIABLES
  program,        \* the script that is running, "" between two scripts
  disk,           \* the content of every file that exists under src/
  dirs,           \* the directories that exist under src/
  untracked,      \* the files that are not under version control
  entry,          \* the index of the entry the loop of a mover handles next
  moved_count,    \* organize-by-feature's counters
  skipped_count,
  log,            \* the lines the running mover has printed, one per entry
  finished,       \* the scripts that have run, in order
  at_start,       \* disk when the last script started
  disk0,          \* disk before the first script
  history         \* every move made so far: << source, target >>

\* the state of a script run on the tree
run_state ==
  << script, fs, orig, start, once, expect, run, pc, pos, buf, files_updated,
     counted, errors, faults, stops, hist, total_updates >>

pipeline == << source, file, ran, printed >>

names == << stem, old_path, pascal_name, by >>

migration ==
  << program, disk, dirs, untracked, entry, moved_count, skipped_count, log,
     finished, at_start, disk0, history >>

vars == << run_state, pipeline, names, migration >>

\* no file is taken through the scripts
NoPipeline == source = "" /\ file = "" /\ ran = << >> /\ printed = << >>

\* no project is migrated
NoMigration ==
  /\ program = ""
  /\ disk = << >> /\ at_start = << >> /\ disk0 = << >>
  /\ dirs = {} /\ untracked = {}
  /\ entry = 0 /\ moved_count = 0 /\ skipped_count = 0
  /\ log = << >> /\ finished = << >> /\ history = {}

\* no name is derived
NoNames == stem = "" /\ old_path = "" /\ pascal_name = "" /\ by = ""

walk == Walk(script, Tree)

NoBuf == [content |-> "", write |-> FALSE, result |-> 0]

\* no script is run on the tree
NoRun ==
  /\ script = ""
  /\ fs = << >> /\ orig = << >> /\ start = << >>
  /\ once = << >> /\ expect = << >>
  /\ run = 0 /\ pc = "" /\ pos = 0
  /\ buf = NoBuf
  /\ files_updated = 0 /\ total_updates = 0
  /\ counted = {} /\ errors = {}
  /\ faults = 0 /\ stops = 0
  /\ hist = << >>

\* update_file on every file of the walk of a tree, each on its own
Outcome(s, tree_fs) ==
  [p \in Paths |-> IF InWalk(s, p) THEN Rewrite(s, p, tree_fs[p]) ELSE NoBuf]

Init ==
  /\ script \in Scripts
  /\ fs \in InitialTrees(script)
  /\ orig = fs
  /\ start = fs
  /\ once = Outcome(script, fs)
  /\ expect = once
  /\ run = 1
  /\ pc = "idle"
  /\ pos = 1
  /\ buf = NoBuf
  /\ files_updated = 0
  /\ counted = {}
  /\ errors = {}
  /\ faults = 0
  /\ stops = 0
  /\ hist = << >>
  /\ total_updates = 0
  /\ NoPipeline
  /\ NoNames
  /\ NoMigration

(***************************************************************************)
(* Actions.                                                                *)
(***************************************************************************)
\* what no step of a run changes
fixed == << script, orig, once, pipeline, names, migration >>

\* update_file reads the file and rewrites the content in memory; when there
\* is something to write it opens the file with mode 'w', which truncates it.
\* With nothing to write it returns False (0) and main goes to the next file.
Process ==
  /\ pc = "idle"
  /\ pos <= Len(walk)
  /\ \E p \in {walk[pos]} : \E r \in {Rewrite(script, p, fs[p])} :
         IF r.write
         THEN /\ pc' = "writing"
              /\ buf' = r
              /\ fs' = [fs EXCEPT ![p] = ""]
              /\ pos' = pos
         ELSE /\ pc' = "idle"
              /\ buf' = NoBuf
              /\ fs' = fs
              /\ pos' = pos + 1
  /\ UNCHANGED << fixed, total_updates, start, expect, run, files_updated,
                  counted, errors, faults, stops, hist >>

\* f.write(content) and the close of the with block; update_file returns
\* True (the count) and main counts the file
FinishWrite ==
  /\ pc = "writing"
  /\ fs' = [fs EXCEPT ![walk[pos]] = buf.content]
  /\ files_updated' = IF buf.result > 0 THEN files_updated + 1 ELSE files_updated
  /\ total_updates' = IF script = "update-feature-imports"
                       THEN total_updates + buf.result ELSE total_updates
  /\ counted' = IF buf.result > 0 THEN counted \cup {walk[pos]} ELSE counted
  /\ pc' = "idle"
  /\ pos' = pos + 1
  /\ buf' = NoBuf
  /\ UNCHANGED << fixed, start, expect, run, errors, faults, stops, hist >>

\* the except clause left out: the error of open or read ends the run
ReadFails_propagates ==
  /\ pc = "idle"
  /\ pos <= Len(walk)
  /\ faults < MaxFaults
  /\ errors' = errors \cup {walk[pos]}
  /\ faults' = faults + 1
  /\ pc' = "done"
  /\ hist' = Append(hist, "done")
  /\ UNCHANGED << fixed, total_updates, fs, start, expect, run, pos, buf,
                  files_updated, counted, stops >>

\* open(filepath, 'r') or f.read() raises: except Exception prints the error
\* and returns False (0); main goes to the next file
ReadFails ==
  /\ pc = "idle"
  /\ pos <= Len(walk)
  /\ faults < MaxFaults
  /\ errors' = errors \cup {walk[pos]}
  /\ faults' = faults + 1
  /\ pos' = pos + 1
  /\ UNCHANGED << fixed, total_updates, fs, start, expect, run, pc, buf,
                  files_updated, counted, stops, hist >>

\* f.write(content) or the close raises after the file was truncated: some
\* prefix of the content is stored; except Exception prints and returns False
WriteFails ==
  /\ pc = "writing"
  /\ faults < MaxFaults
  /\ \E n \in {0, Len(buf.content) \div 2} :
       fs' = [fs EXCEPT ![walk[pos]] = SubSeq(buf.content, 1, n)]
  /\ errors' = errors \cup {walk[pos]}
  /\ faults' = faults + 1
  /\ pc' = "idle"
  /\ pos' = pos + 1
  /\ buf' = NoBuf
  /\ UNCHANGED << fixed, total_updates, start, expect, run, files_updated,
                  counted, stops, hist >>

\* the run is interrupted between two files (or before the summary is printed)
Interrupt ==
  /\ pc = "idle"
  /\ stops < MaxStops
  /\ pc' = "interrupted"
  /\ stops' = stops + 1
  /\ hist' = Append(hist, "interrupted")
  /\ UNCHANGED << fixed, total_updates, fs, start, expect, run, pos, buf,
                  files_updated, counted, errors, faults >>

\* the process is killed while the file is open for writing: the content in
\* the buffer is lost
Kill ==
  /\ pc = "writing"
  /\ stops < MaxStops
  /\ pc' = "killed"
  /\ buf' = NoBuf
  /\ stops' = stops + 1
  /\ hist' = Append(hist, "killed")
  /\ UNCHANGED << fixed, total_updates, fs, start, expect, run, pos,
                  files_updated, counted, errors, faults >>

\* the loop of main is over: the summary is printed
Finish ==
  /\ pc = "idle"
  /\ pos > Len(walk)
  /\ pc' = "done"
  /\ hist' = Append(hist, "done")
  /\ UNCHANGED << fixed, total_updates, fs, start, expect, run, pos, buf,
                  files_updated, counted, errors, faults, stops >>

\* the script is started again
Rerun ==
  /\ pc \in {"done", "interrupted", "killed"}
  /\ run < MaxRuns
  /\ run' = run + 1
  /\ start' = fs
  /\ expect' = [p \in Paths |->
                  IF fs[p] = start[p] THEN expect[p]
                  ELSE Outcome(script, fs)[p]]
  /\ pc' = "idle"
  /\ pos' = 1
  /\ buf' = NoBuf
  /\ files_updated' = 0
  /\ total_updates' = 0
  /\ counted' = {}
  /\ errors' = {}
  /\ UNCHANGED << fixed, fs, faults, stops, hist >>

Next ==
  \/ Process
  \/ FinishWrite
  \/ ReadFails
  \/ WriteFails
  \/ Interrupt
  \/ Kill
  \/ Finish
  \/ Rerun

Spec == Init /\ [][Next]_vars


(***************************************************************************)
(* Reading a content: lines, references, named imports, string literals.   *)
(***************************************************************************)
\* the position where the line that holds position i starts
LineStart(s, i) ==
  LET nl == {j \in 1..(i - 1) : Ch(s, j) = "\n"}
  IN  IF nl = {} THEN 1 ELSE (CHOOSE j \in nl : \A k \in nl : k <= j) + 1

\* position i lies on a line that is a // comment
InComment(s, i) == StartsAt(s, LineStart(s, i), "//")

\* every line of the content is a // comment
IsCommentOnly(s) == s # "" /\ \A i \in 1..Len(s) : InComment(s, i)

\* the module specifier of the reference at anchor a: the text between the
\* quotes that follow "from" or "import(", "" when a is no reference
SpecifierAt(s, a) ==
  LET q == IF StartsAt(s, a, "from") THEN SkipSpaces(s, a + 4)
           ELSE IF StartsAt(s, a, "import(") THEN a + 7 ELSE 0
      e == IF q # 0 /\ IsQuote(Ch(s, q)) THEN Find(s, q + 1, Ch(s, q)) ELSE 0
  IN  IF e = 0 THEN "" ELSE SubSeq(s, q + 1, e - 1)

\* the members of a set of positions in increasing order
Sorted(S) ==
  [k \in 1..Cardinality(S) |->
     CHOOSE a \in S : Cardinality({b \in S : b < a}) = k - 1]

\* where the references of a content start: static (import ... from '...',
\* export ... from '...') and dynamic (import('...')), comments left out
References(s) ==
  Sorted({a \in Anchors(s) : ~InComment(s, a) /\ SpecifierAt(s, a) # ""})

\* the specifiers of the references, in the order of the content
Specifiers(s) ==
  [k \in 1..Len(References(s)) |-> SpecifierAt(s, References(s)[k])]

\* where the specifier clauses of the import statements of a content start
ImportReferences(s) ==
  Sorted({a \in Anchors(s) :
            /\ ~InComment(s, a)
            /\ StartsAt(s, a, "from")
            /\ SpecifierAt(s, a) # ""
            /\ StartsAt(s, LineStart(s, a), "import")})

RECURSIVE TrimEnd(_)
TrimEnd(w) ==
  IF w # "" /\ IsSpace(Ch(w, Len(w)))
  THEN TrimEnd(SubSeq(w, 1, Len(w) - 1)) ELSE w

\* str.strip()
Trim(w) == TrimEnd(SubSeq(w, SkipSpaces(w, 1), Len(w)))

RECURSIVE Names(_, _)
\* the bound names of a binding list, from position i
Names(list, i) ==
  IF i > Len(list) THEN << >>
  ELSE LET d == Find(list, i, ",")
           e == IF d = 0 THEN Len(list) + 1 ELSE d
           n == Trim(SubSeq(list, i, e - 1))
       IN  (IF n = "" THEN << >> ELSE << n >>) \o Names(list, e + 1)

NoStatement == [names |-> << >>, specifier |-> ""]

\* the statement import { names } from 'specifier' that starts at anchor a
NamedImportAt(s, a) ==
  LET b == IF StartsAt(s, a, "import") THEN SkipSpaces(s, a + 6) ELSE 0
      c == IF b # 0 /\ Ch(s, b) = "{" THEN Find(s, b + 1, "}") ELSE 0
      f == IF c # 0 THEN SkipSpaces(s, c + 1) ELSE 0
  IN  IF f # 0 /\ StartsAt(s, f, "from") /\ SpecifierAt(s, f) # ""
      THEN [names |-> Names(SubSeq(s, b + 1, c - 1), 1),
            specifier |-> SpecifierAt(s, f)]
      ELSE NoStatement

\* where the named import statements of a content start, comments left out
NamedImports(s) ==
  {a \in Anchors(s) : ~InComment(s, a) /\ NamedImportAt(s, a) # NoStatement}

RECURSIVE Skeleton(_, _)
\* the content from position i with the text of every string literal taken
\* out: what is left are the characters outside the literals and the quotes
Skeleton(s, i) ==
  LET qs == {j \in i..Len(s) : IsQuote(Ch(s, j))}
      q == IF qs = {} THEN 0 ELSE Min(qs)
      e == IF q = 0 THEN 0 ELSE Find(s, q + 1, Ch(s, q))
  IN  IF e = 0 THEN SubSeq(s, i, Len(s))
      ELSE SubSeq(s, i, q) \o Ch(s, e) \o Skeleton(s, e + 1)

(***************************************************************************)
(* The tables read as rules on specifiers and on bound names.              *)
(***************************************************************************)
Pairs(table) == {table[k] : k \in 1..Len(table)}

\* the entries of a script's table, as written
KeyRules ==
  [s \in Scripts |->
     CASE s = "update-imports" -> Pairs(RENAMES)
       [] s = "update-feature-imports" -> Pairs(PATH_UPDATES)
       [] s = "fix-moved-imports" -> Pairs(IMPORT_FIXES_moved)
       [] s = "fix-remaining-imports" -> Pairs(IMPORT_FIXES_remaining)
       [] s = "fix-all-remaining-imports" -> Pairs(FIXES)
       [] OTHER -> {}]

\* old specifier, new specifier: the tables of names under every path form,
\* the tables of specifiers as written
SpecifierRules ==
  [s \in Scripts |->
     IF s \in {"update-imports", "update-feature-imports"}
     THEN {<< f \o r[1], f \o r[2] >> :
             f \in {"@/components/", "./", "../", "../../"},
             r \in KeyRules[s]}
     ELSE KeyRules[s]]

\* the specifier a reference to spec has after the rules of script s
NewSpecifier(s, spec) ==
  LET R == {r \in SpecifierRules[s] : r[1] = spec}
  IN  IF R = {} THEN spec ELSE (CHOOSE r \in R : TRUE)[2]

\* bound name, destination: the name the scripts derive from an entry's old
\* path (pascal_name) and the entry's new path
BindingRules ==
  [s \in Scripts |->
     IF s \in {"fix-moved-imports", "fix-remaining-imports",
               "fix-all-remaining-imports"}
     THEN {<< PascalName(r[1]), r[2] >> :
             r \in {x \in KeyRules[s] : StartsAt(x[1], 1, "@/components/")}}
     ELSE {}]

Covered(s, name) == \E r \in BindingRules[s] : r[1] = name

Destination(s, name) == (CHOOSE r \in BindingRules[s] : r[1] = name)[2]

(***************************************************************************)
(* What a run is expected to make of one file.                             *)
(***************************************************************************)
\* every reference to an old module, whatever its form, holds the new
\* specifier afterwards
AllFormsRewritten(s, before, after) ==
  /\ Len(Specifiers(after)) = Len(Specifiers(before))
  /\ \A k \in 1..Len(Specifiers(before)) :
       (\E r \in SpecifierRules[s] : r[1] = Specifiers(before)[k])
         => Specifiers(after)[k] = NewSpecifier(s, Specifiers(before)[k])

RECURSIVE SumOfDeltas(_, _, _)
\* the sum, over the references from the k-th on, of the length of the
\* specifier afterwards minus the length of the specifier before
SumOfDeltas(before, after, k) ==
  IF k > Len(Specifiers(before)) \/ k > Len(Specifiers(after)) THEN 0
  ELSE Len(Specifiers(after)[k]) - Len(Specifiers(before)[k])
         + SumOfDeltas(before, after, k + 1)

\* the length changes by the deltas of the specifiers, and outside the string
\* literals no character changes
OnlySpecifiersChange(before, after) ==
  /\ Len(after) = Len(before) + SumOfDeltas(before, after, 1)
  /\ Skeleton(after, 1) = Skeleton(before, 1)

\* the statement names two bindings that rules send to different places
FansOut(s, st) ==
  /\ Len(st.names) = 2
  /\ Covered(s, st.names[1])
  /\ Covered(s, st.names[2])
  /\ Destination(s, st.names[1]) # Destination(s, st.names[2])

\* a statement that fans out is replaced by one statement for each binding,
\* and a statement the run wrote holds no name that belongs elsewhere
SplitByBinding(s, before, after) ==
  LET fan == {a \in NamedImports(before) : FansOut(s, NamedImportAt(before, a))}
      was == {NamedImportAt(before, a) : a \in NamedImports(before)}
  IN  /\ Cardinality(NamedImports(after))
           = Cardinality(NamedImports(before)) + Cardinality(fan)
      /\ \A a \in fan : \A k \in 1..2 :
           LET n == NamedImportAt(before, a).names[k]
           IN  \E b \in NamedImports(after) :
                 NamedImportAt(after, b)
                   = [names |-> << n >>, specifier |-> Destination(s, n)]
      /\ \A b \in NamedImports(after) :
           LET st == NamedImportAt(after, b)
               chosen == \E k \in 1..Len(st.names) :
                           /\ Covered(s, st.names[k])
                           /\ Destination(s, st.names[k]) = st.specifier
           IN  (st \notin was /\ chosen) =>
                 \A k \in 1..Len(st.names) :
                   /\ Covered(s, st.names[k])
                   /\ Destination(s, st.names[k]) = st.specifier

\* the import statements whose specifier is an old key of the table and that
\* do not hold the entry's new specifier afterwards
LeftBehind(s, before, after) ==
  {k \in 1..Len(ImportReferences(before)) :
     \E r \in KeyRules[s] :
       /\ SpecifierAt(before, ImportReferences(before)[k]) = r[1]
       /\ \/ k > Len(ImportReferences(after))
          \/ SpecifierAt(after, ImportReferences(after)[k]) # r[2]}

(***************************************************************************)
(* Properties of the runs.                                                 *)
(***************************************************************************)
\* the files of the walk
Walked == {walk[k] : k \in 1..Len(walk)}

\* the first run has ended; no error was raised and nothing interrupted it
CleanRun == pc = "done" /\ hist = << "done" >> /\ faults = 0

\* C1 (idempotence): when a run that follows a complete run ends, every file
\* is as the first run left it and the second run counted no file as updated.
Cex_C1 ==
  (pc = "done" /\ hist = << "done", "done" >> /\ faults = 0)
    => (fs = start /\ files_updated = 0)

\* C2 (concrete scenario): after a run of fix-moved-imports, a file that held
\* the import of ChallengeCard from '@/components/challenge-card' holds,
\* character for character, the import of ChallengeCard from
\* '@/components/challenges', and the run counted the file as updated.
Cex_C2 ==
  (CleanRun /\ script = "fix-moved-imports")
    => \A p \in Walked :
         orig[p] = "import { ChallengeCard } from '@/components/challenge-card'"
           => /\ fs[p] = "import { ChallengeCard } from '@/components/challenges'"
              /\ p \in counted

\* C3 (isolation): after a run, a file that held nothing but comments is
\* byte for byte what it was and is not counted as updated.
Cex_C3 ==
  CleanRun
    => \A p \in Walked :
         IsCommentOnly(orig[p]) => (fs[p] = orig[p] /\ p \notin counted)

\* C4 (no corruption): after a run, the length of every file is its length
\* before plus the sum of the length deltas of its specifiers, and every
\* character outside the specifiers is unchanged.
Cex_C4 ==
  CleanRun => \A p \in Walked : OnlySpecifiersChange(orig[p], fs[p])

\* C5 (complete form coverage): after a run, every reference to an old module
\* of the script's table (named import, default import, re-export, dynamic
\* import; alias-rooted and dot-relative) holds the new specifier.
Cex_C5 ==
  CleanRun => \A p \in Walked : AllFormsRewritten(script, orig[p], fs[p])

\* C6 (binding-filtered fan-out): after a run, an import statement that named
\* two bindings with different destinations has become two statements, one
\* for each binding with its destination, and no name was carried along to
\* the destination of another name.
Cex_C6 ==
  CleanRun => \A p \in Walked : SplitByBinding(script, orig[p], fs[p])

\* C7 (never silently dropped): after a run, every import statement whose
\* specifier was an old key of the table holds the new specifier, or the run
\* reported the file.
Cex_C7 ==
  CleanRun
    => \A p \in Walked :
         LeftBehind(script, orig[p], fs[p]) # {} => p \in errors

\* C8 (atomic per-file write): at every point of a run the stored content of
\* every file is the complete content the run started with or the complete
\* content update_file makes of it.
Cex_C8 ==
  \A p \in Paths : fs[p] = start[p] \/ fs[p] = expect[p].content

\* the files the current run has handled so far
Handled == {walk[k] : k \in 1..(pos - 1)}

\* C9 (fail-soft batch): a file whose read or write raised an error is
\* recorded and not counted; every other file the run has handled holds what
\* update_file makes of it and is counted exactly when a run without the
\* error counts it; and a run ends only after the last file of the walk.
Thm_C9 ==
  /\ \A p \in Handled :
       IF p \in errors
       THEN p \notin counted
       ELSE /\ fs[p] = expect[p].content
            /\ p \in counted <=> (expect[p].write /\ expect[p].result > 0)
  /\ errors \subseteq Handled
  /\ files_updated = Cardinality(counted)
  /\ pc = "done" => pos = Len(walk) + 1

\* a run has ended in which a file failed between two files that were
\* rewritten and counted
Witness_C9 ==
  /\ pc = "done"
  /\ \E i, j, k \in 1..Len(walk) :
       /\ i < j
       /\ j < k
       /\ walk[i] \in counted
       /\ walk[j] \in errors
       /\ walk[k] \in counted
       /\ fs[walk[k]] # start[walk[k]]

\* C10 (interrupt and resume): when the run that follows an interrupted run
\* ends, every file holds what one uninterrupted run makes of it; and when a
\* further run ends, it has changed nothing.
Cex_C10 ==
  (pc = "done" /\ faults = 0)
    => /\ hist = << "interrupted", "done" >>
            => \A p \in Walked : fs[p] = once[p].content
       /\ hist = << "interrupted", "done", "done" >>
            => (fs = start /\ files_updated = 0)

\* the specifier new is what one rule of script s, run on file p, makes of
\* the specifier old
Produced(s, p, old, new) ==
  IF s = "fix-barrel-exports"
  THEN \E k \in 1..Len(Replacements(p)) :
         LET r == Replacements(p)[k]
         IN  /\ StartsAt(old, 1, r[1])
             /\ new = r[2] \o SubSeq(old, Len(r[1]) + 1, Len(old))
  ELSE \E r \in SpecifierRules[s] : r[1] = old /\ r[2] = new

\* C11 (no double rewrite): every specifier a run rewrote is the replacement
\* of one rule of the table, and when the script scans the files again no
\* rule matches what the first run produced: update_file finds nothing to
\* write in any file.
Cex_C11 ==
  (run = 2 /\ hist = << "done" >> /\ faults = 0 /\ pos = 1)
    => \A p \in Walked :
         /\ Len(Specifiers(start[p])) = Len(Specifiers(orig[p]))
         /\ \A k \in 1..Len(Specifiers(orig[p])) :
              Specifiers(start[p])[k] # Specifiers(orig[p])[k]
                => Produced(script, p, Specifiers(orig[p])[k],
                            Specifiers(start[p])[k])
         /\ ~expect[p].write

(***************************************************************************)
(* One file taken through several scripts. Each script is run with its     *)
(* table as written, with the entries in another order, and (FIXES is a    *)
(* list: nothing keeps its old paths distinct) with one more entry for an  *)
(* old path the list already holds.                                        *)
(***************************************************************************)
\* the number of scripts the file is taken through
MaxScripts == 2

\* the table a script reads, as written
TableOf(s) ==
  CASE s = "update-feature-imports" -> PATH_UPDATES
    [] s = "fix-moved-imports" -> IMPORT_FIXES_moved
    [] s = "fix-all-remaining-imports" -> FIXES

\* the entries of a table, last to first
Reversed(table) == Tuple([k \in 1..Len(table) |-> table[Len(table) + 1 - k]])

\* the tables a script is run with; for FIXES also with a second entry for
\* one of its old paths, with another target, after and before the others
Tables(s) ==
  {TableOf(s), Reversed(TableOf(s))}
    \cup (IF s = "fix-all-remaining-imports"
          THEN UNION { {Append(FIXES, rule), << rule >> \o FIXES} :
                         rule \in {<< "@/components/login-dialog",
                                      "@/components/auth" >>} }
          ELSE {})

\* the patterns the loop body of script s builds, entry by entry of a table
PatternsOf(s, table) ==
  Tuple([k \in 1..Len(table) |->
           CASE s = "update-feature-imports" ->
                  Patterns_update_feature_imports(table[k])
             [] s = "fix-moved-imports" -> Patterns_fix_moved_imports(table[k])
             [] s = "fix-all-remaining-imports" ->
                  Patterns_fix_all_remaining_imports(table[k])])

\* update_file of script s when the script's table is the given one
update_file_with(s, table, content) ==
  IF s = "update-feature-imports"
  THEN Only({ [content |-> st.text.s, write |-> st.text.s # content,
               result |-> IF st.text.s # content THEN st.updated_count ELSE 0] :
                st \in { ForPathUpdates(pats, 1, Len(pats),
                                        [text |-> t, updated_count |-> 0]) :
                           t \in Read(content),
                           pats \in {PatternsOf(s, table)} } })
  ELSE Only({ WriteIfChanged(content, text) :
                text \in { ForFixes(pats, 1, Len(pats), t) :
                             t \in Read(content),
                             pats \in {PatternsOf(s, table)} } })

\* file contents the scripts are taken through
PipelineInputs ==
  { "import { ChallengeForm } from '@/components/challenge-form'",
    "import FilterPanel from '@/components/filter-panel'",
    "import { LoginDialog } from '@/components/login-dialog'",
    "import { AiChat } from '@/components/ai-chat'",
    "import { ChallengeCard } from '@/components/challenge-card'",
    "import Logo from './logo'\nimport { AiChat } from '../ai-chat'",
    "import { A } from './create-node-relationship-dialog'",
    "import { CreateArticleDialog } from '@/components/create-article-dialog'\nimport { LoginDialog } from \"@/components/login-dialog\"" }

PipelineInit ==
  /\ NoRun
  /\ NoNames
  /\ NoMigration
  /\ source \in PipelineInputs
  /\ file = source
  /\ ran = << >>
  /\ printed = << >>

\* one script is run to its end on the file: update_file rewrites the
\* content and writes it when it changed; main prints a line for the file
\* when update_file reports it as updated
RunScript(s, table) ==
  /\ Len(ran) < MaxScripts
  /\ \E r \in {update_file_with(s, table, file)} :
       /\ file' = r.content
       /\ printed' = IF r.result = 0 THEN printed
                     ELSE IF s = "update-feature-imports"
                     THEN Append(printed, << "updated", r.result >>)
                     ELSE Append(printed, << "updated" >>)
  /\ ran' = Append(ran, << s, table >>)
  /\ UNCHANGED << run_state, names, migration, source >>

PipelineNext ==
  \E s \in {"update-feature-imports", "fix-moved-imports",
            "fix-all-remaining-imports"} :
    \E table \in Tables(s) : RunScript(s, table)

PipelineSpec == PipelineInit /\ [][PipelineNext]_vars

MaxLen == 3

RECURSIVE Strings(_)
\* the texts of length n over a letter, the last letter, a digit, the dash
Strings(n) ==
  IF n = 0 THEN {""}
  ELSE {s \o c : s \in Strings(n - 1), c \in {"a", "z", "7", "-"}}

\* file stems of lowercase letters, digits and dashes
Stems ==
  UNION {Strings(n) : n \in 1..MaxLen}
    \cup {"ai-assistant-panel", "custom-node", "graph-3d-view"}

NamesInit ==
  /\ NoRun
  /\ NoPipeline
  /\ NoMigration
  /\ stem \in Stems
  /\ old_path \in {"@/components/" \o stem, "./" \o stem}
  /\ pascal_name = ""
  /\ by = ""

\* component_name = old_path.split('/')[-1]; pascal_name = ''.join(...) in
\* the loop body of update_file; fix-all-remaining-imports derives the name
\* of alias-rooted old paths only
Derive(s) ==
  /\ by = ""
  /\ s = "fix-all-remaining-imports" => StartsAt(old_path, 1, "@/components/")
  /\ pascal_name' = PascalName(old_path)
  /\ by' = s
  /\ UNCHANGED << run_state, pipeline, migration, stem, old_path >>

NamesNext ==
  \E s \in {"fix-moved-imports", "fix-remaining-imports",
            "fix-all-remaining-imports"} : Derive(s)

NamesSpec == NamesInit /\ [][NamesNext]_vars

\* C13 (binding-name derivation): the name derived for a stem of lowercase
\* letters, digits and dashes is the stem without its dashes, with the first
\* character of every dash-separated segment upper-cased and every other
\* character as it is; ai-assistant-panel gives AiAssistantPanel.
Thm_C13 ==
  by # ""
    => LET claimed[k \in 0..Len(stem)] ==
             IF k = 0 THEN ""
             ELSE claimed[k - 1]
                    \o (IF Ch(stem, k) = "-" THEN ""
                        ELSE IF k = 1 \/ Ch(stem, k - 1) = "-"
                        THEN ToUpper(Ch(stem, k))
                        ELSE Ch(stem, k))
       IN  /\ pascal_name = claimed[Len(stem)]
           /\ stem = "ai-assistant-panel" => pascal_name = "AiAssistantPanel"

\* the name of ai-assistant-panel has been derived
Witness_C13 ==
  /\ by = "fix-moved-imports"
  /\ old_path = "@/components/ai-assistant-panel"
  /\ pascal_name = "AiAssistantPanel"

(***************************************************************************)
(* The scripts run one after another on a project: the two file movers,    *)
(* rename-components.py and organize-by-feature.py, entry by entry, and    *)
(* the import scripts that follow them, each from its start to its end.    *)
(***************************************************************************)
\* the number of scripts run on the project
MaxPrograms == 2

Movers == {"rename-components", "organize-by-feature"}

Updaters == {"update-imports", "update-feature-imports", "fix-barrel-exports"}

\* the characters of the file names in the order of their code points
CodePoints == "-.0123456789" \o UpperCase \o LowerCase

RECURSIVE Less(_, _)
\* a < b on str
Less(a, b) ==
  LET Ord(c) == CHOOSE k \in 1..Len(CodePoints) : Ch(CodePoints, k) = c
  IN  IF b = "" THEN FALSE
      ELSE IF a = "" THEN TRUE
      ELSE IF Head(a) # Head(b) THEN Ord(Head(a)) < Ord(Head(b))
      ELSE Less(Tail(a), Tail(b))

\* sorted(table.items())
SortedItems(table) ==
  Only({ Tuple([k \in 1..Len(table) |->
                  table[CHOOSE i \in 1..Len(table) : smaller[i] = k - 1]]) :
           smaller \in {Tuple([i \in 1..Len(table) |->
                           Cardinality({j \in 1..Len(table) :
                                          Less(table[j][1], table[i][1])})])} })

\* the entries the two loops of rename-components handle, in order
Entries_rename_components ==
  SortedItems(COMPONENT_RENAMES) \o SortedItems(STORY_RENAMES)

\* the entries the two loops of organize-by-feature handle, in order
Entries_organize_by_feature ==
  SortedItems(COMPONENT_MOVES) \o SortedItems(STORY_MOVES)

Entries(p) ==
  IF p = "rename-components" THEN Entries_rename_components
  ELSE IF p = "organize-by-feature" THEN Entries_organize_by_feature
  ELSE << >>

\* os.chdir("src/components"): the path of a file name of the tables
Source(e) == "src/components/" \o e[1]

\* the second argument of git mv: new_name, f"{target_dir}/{filename}"
Target(p, e) ==
  IF p = "rename-components" THEN "src/components/" \o e[2]
  ELSE "src/components/" \o e[2] \o "/" \o e[1]

RECURSIVE Dir(_)
\* the directory of a path: the text before the last '/'
Dir(path) ==
  IF path = "" THEN ""
  ELSE IF Ch(path, Len(path)) = "/" THEN SubSeq(path, 1, Len(path) - 1)
  ELSE Dir(SubSeq(path, 1, Len(path) - 1))

\* git mv exits with an error (check=True raises CalledProcessError): the
\* source is not under version control, the directory of the target does
\* not exist, or the target exists
GitMvFails(src, dst) ==
  \/ src \in untracked
  \/ Dir(dst) \notin dirs
  \/ dst \in DOMAIN disk

\* the projects the scripts are run on: components under their old names
\* and an import of each form; the same with a file that already has a new
\* name; components under their new names with a feature directory, its
\* barrel file, and a component whose feature directory does not exist; the
\* same with a file that was never added to the repository
Projects ==
  LET old == ( "src/app/page.tsx" :>
                 "import { VeracityPanel } from '@/components/VeracityPanel'"
               @@ "src/components/VeracityPanel.tsx" :>
                 "import { VeracityBadge } from './VeracityBadge'"
               @@ "src/components/VeracityBadge.tsx" :>
                 "export const VeracityBadge = 1" )
      new == ( "src/app/page.tsx" :>
                 "import { AiChat } from '../components/ai-chat'"
               @@ "src/components/index.ts" :> "export * from './ai-chat'"
               @@ "src/components/ai-chat.tsx" :>
                 "import { AiAssistantPanel } from './ai-assistant-panel'"
               @@ "src/components/ai-assistant-panel.tsx" :>
                 "export const AiAssistantPanel = 1"
               @@ "src/components/veracity-badge.tsx" :>
                 "export const VeracityBadge = 1"
               @@ "src/components/ai-assistant/index.ts" :>
                 "export * from './ai-chat'" )
      top == {"src/app", "src/components"}
  IN  { [disk |-> old, dirs |-> top, untracked |-> {}],
        [disk |-> old @@ "src/components/veracity-badge.tsx" :> "",
         dirs |-> top, untracked |-> {}],
        [disk |-> new, dirs |-> top \cup {"src/components/ai-assistant"},
         untracked |-> {}],
        [disk |-> new, dirs |-> top \cup {"src/components/ai-assistant"},
         untracked |-> {"src/components/ai-assistant-panel.tsx"}] }

MigrationInit ==
  /\ NoRun
  /\ NoPipeline
  /\ NoNames
  /\ \E project \in Projects :
       /\ disk = project.disk
       /\ dirs = project.dirs
       /\ untracked = project.untracked
  /\ disk0 = disk
  /\ at_start = disk
  /\ program = ""
  /\ entry = 0
  /\ moved_count = 0
  /\ skipped_count = 0
  /\ log = << >>
  /\ finished = << >>
  /\ history = {}

others == << run_state, pipeline, names >>

\* a file mover is started
StartMover(p) ==
  /\ program = ""
  /\ Len(finished) < MaxPrograms
  /\ program' = p
  /\ entry' = 1
  /\ moved_count' = 0
  /\ skipped_count' = 0
  /\ log' = << >>
  /\ at_start' = disk
  /\ UNCHANGED << others, disk, dirs, untracked, finished, disk0, history >>

\* if os.path.exists(filename): git mv succeeds
Move ==
  /\ program \in Movers
  /\ entry <= Len(Entries(program))
  /\ \E e \in {Entries(program)[entry]} :
       /\ Source(e) \in DOMAIN disk
       /\ ~GitMvFails(Source(e), Target(program, e))
       /\ disk' = [q \in (DOMAIN disk \ {Source(e)})
                            \cup {Target(program, e)} |->
                       IF q = Target(program, e) THEN disk[Source(e)]
                       ELSE disk[q]]
       /\ history' = history \cup {<< Source(e), Target(program, e) >>}
       /\ log' = Append(log, << "moved", e[1] >>)
  /\ moved_count' = IF program = "organize-by-feature" THEN moved_count + 1
                    ELSE moved_count
  /\ entry' = entry + 1
  /\ UNCHANGED << others, program, dirs, untracked, skipped_count, finished,
                  at_start, disk0 >>

\* the except clause left out: the error of git mv ends the script
MoveFails_raises ==
  /\ program \in Movers
  /\ entry <= Len(Entries(program))
  /\ \E e \in {Entries(program)[entry]} :
       /\ Source(e) \in DOMAIN disk
       /\ GitMvFails(Source(e), Target(program, e))
  /\ finished' = Append(finished, program)
  /\ program' = ""
  /\ UNCHANGED << others, disk, dirs, untracked, entry, moved_count,
                  skipped_count, log, at_start, disk0, history >>

\* if os.path.exists(filename): git mv fails; except CalledProcessError
\* prints the failure and the loop goes on
MoveFails ==
  /\ program \in Movers
  /\ entry <= Len(Entries(program))
  /\ \E e \in {Entries(program)[entry]} :
       /\ Source(e) \in DOMAIN disk
       /\ GitMvFails(Source(e), Target(program, e))
       /\ log' = Append(log, << "failed", e[1] >>)
  /\ entry' = entry + 1
  /\ UNCHANGED << others, program, disk, dirs, untracked, moved_count,
                  skipped_count, finished, at_start, disk0, history >>

\* else: the entry is skipped (not found)
Skip ==
  /\ program \in Movers
  /\ entry <= Len(Entries(program))
  /\ \E e \in {Entries(program)[entry]} :
       /\ Source(e) \notin DOMAIN disk
       /\ log' = Append(log, << "skipped", e[1] >>)
  /\ skipped_count' = IF program = "organize-by-feature" THEN skipped_count + 1
                      ELSE skipped_count
  /\ entry' = entry + 1
  /\ UNCHANGED << others, program, disk, dirs, untracked, moved_count,
                  finished, at_start, disk0, history >>

\* both loops are over: the summary is printed
EndMover ==
  /\ program \in Movers
  /\ entry > Len(Entries(program))
  /\ finished' = Append(finished, program)
  /\ program' = ""
  /\ UNCHANGED << others, disk, dirs, untracked, entry, moved_count,
                  skipped_count, log, at_start, disk0, history >>

\* an import script runs from its start to its end: every file main hands
\* to update_file holds what update_file makes of it
Update(p) ==
  /\ program = ""
  /\ Len(finished) < MaxPrograms
  /\ disk' = [q \in DOMAIN disk |->
                IF Walk(p, << q >>) # << >>
                THEN Rewrite(p, q, disk[q]).content
                ELSE disk[q]]
  /\ at_start' = disk
  /\ finished' = Append(finished, p)
  /\ log' = << >>
  /\ entry' = 0
  /\ UNCHANGED << others, program, dirs, untracked, moved_count,
                  skipped_count, disk0, history >>

MigrationNext ==
  \/ \E p \in Movers : StartMover(p)
  \/ Move
  \/ MoveFails
  \/ Skip
  \/ EndMover
  \/ \E p \in Updaters : Update(p)

MigrationSpec == MigrationInit /\ [][MigrationNext]_vars

\* the script that is running, or the one that ran last
Latest ==
  IF program # "" THEN program
  ELSE IF finished = << >> THEN ""
  ELSE finished[Len(finished)]

Rewritten(before, after) ==
  LET Occurrences(s) == Sorted({a \in Anchors(s) : SpecifierAt(s, a) # ""})
  IN  Cardinality({k \in 1..Len(Occurrences(before)) :
                     \/ k > Len(Occurrences(after))
                     \/ SpecifierAt(after, Occurrences(after)[k])
                          # SpecifierAt(before, Occurrences(before)[k])})

RECURSIVE RewrittenFrom(_)
\* the occurrences rewritten in the files of the walk from the k-th on
RewrittenFrom(k) ==
  IF k > Len(walk) THEN 0
  ELSE Rewritten(orig[walk[k]], fs[walk[k]]) + RewrittenFrom(k + 1)

\* C15 (reported counts): at the end of a run of update-feature-imports the
\* reported number of files updated is the number of files whose content
\* changed, and the reported total of imports fixed is the number of import
\* occurrences that were rewritten.
Cex_C15 ==
  (CleanRun /\ script = "update-feature-imports")
    => /\ files_updated = Cardinality({p \in Paths : fs[p] # orig[p]})
       /\ total_updates = RewrittenFrom(1)

(***************************************************************************)
(* What the specifier of a reference denotes.                              *)
(***************************************************************************)
RECURSIVE Relative(_, _)
\* the path a dot-relative specifier denotes from a directory
Relative(dir, spec) ==
  IF StartsAt(spec, 1, "./") THEN Relative(dir, SubSeq(spec, 3, Len(spec)))
  ELSE IF StartsAt(spec, 1, "../")
  THEN Relative(Dir(dir), SubSeq(spec, 4, Len(spec)))
  ELSE dir \o "/" \o spec

\* the path, without extension, the specifier of a reference in the file at
\* path denotes: '@/' is src/, a dot-relative specifier starts at the
\* directory of the file
Resolve(path, spec) ==
  IF StartsAt(spec, 1, "@/") THEN "src/" \o SubSeq(spec, 3, Len(spec))
  ELSE IF StartsAt(spec, 1, ".") THEN Relative(Dir(path), spec)
  ELSE spec

\* the files of d a reference in the file at path resolves to
ResolvesTo(d, path, spec) ==
  {f \in DOMAIN d :
     \E x \in {".ts", ".tsx", "/index.ts", "/index.tsx"} :
       f = Resolve(path, spec) \o x}

RECURSIVE Now(_)
\* where the file that was at path before the first script is now
Now(path) ==
  IF \E mv \in history : mv[1] = path
  THEN Now((CHOOSE mv \in history : mv[1] = path)[2])
  ELSE path

\* the k-th reference of the file that was at path p: what its specifier
\* denoted before the first script, and what it denotes now
Denoted(p, k) == ResolvesTo(disk0, p, Specifiers(disk0[p])[k])

DenotesNow(p, k) ==
  IF k <= Len(Specifiers(disk[Now(p)]))
  THEN ResolvesTo(disk, Now(p), Specifiers(disk[Now(p)])[k])
  ELSE {}

\* C16 (rename and import tables agree): after rename-components and then
\* update-imports, every import of '@/components/<Old>' of a component that
\* was renamed denotes the file the component was renamed to; and for every
\* old name of both tables, RENAMES gives the stem COMPONENT_RENAMES gives.
Cex_C16 ==
  (program = "" /\ finished = << "rename-components", "update-imports" >>)
    => /\ \A p \in DOMAIN disk0 : \A k \in 1..Len(Specifiers(disk0[p])) :
            (/\ StartsAt(Specifiers(disk0[p])[k], 1, "@/components/")
             /\ \E f \in Denoted(p, k) : Now(f) # f)
              => DenotesNow(p, k) = {Now(f) : f \in Denoted(p, k)}
       /\ \A r \in Pairs(RENAMES) : \A c \in Pairs(COMPONENT_RENAMES) :
            c[1] = r[1] \o ".tsx" => c[2] = r[2] \o ".tsx"

\* C17 (relative references keep resolving): after organize-by-feature and
\* then update-feature-imports, every dot-relative reference to a module
\* that was moved, in a file of any directory, denotes the module where it
\* is now; and every dot-relative reference that denoted a file when
\* update-feature-imports started still denotes a file.
Cex_C17 ==
  (program = ""
     /\ finished = << "organize-by-feature", "update-feature-imports" >>)
    => \A p \in DOMAIN disk0 : \A k \in 1..Len(Specifiers(disk0[p])) :
         StartsAt(Specifiers(disk0[p])[k], 1, ".")
           => /\ (\E f \in Denoted(p, k) : Now(f) # f)
                   => DenotesNow(p, k) = {Now(f) : f \in Denoted(p, k)}
              /\ ResolvesTo(at_start, Now(p), Specifiers(at_start[Now(p)])[k])
                   # {}
                   => DenotesNow(p, k) # {}

RECURSIVE Final(_, _, _)
\* the content a file has after the steps from the k-th on, each a script
\* and the table it reads
Final(steps, k, content) ==
  IF k > Len(steps) THEN content
  ELSE Final(steps, k + 1,
             update_file_with(steps[k][1], steps[k][2], content).content)

\* C18 (rule-order independence): the content a file ends with is the same
\* when the entries of the tables are applied in the opposite order, and,
\* after update-feature-imports and fix-moved-imports have both run, the same
\* as when the two scripts run in the opposite order.
Cex_C18 ==
  LET reversed == [k \in 1..Len(ran) |-> << ran[k][1], Reversed(ran[k][2]) >>]
      opposite == [k \in 1..Len(ran) |-> ran[Len(ran) + 1 - k]]
  IN  (/\ Len(ran) >= 1
       /\ \A k \in 1..Len(ran) :
            /\ ran[k][1] \in {"update-feature-imports", "fix-moved-imports"}
            /\ ran[k][2] \in {TableOf(ran[k][1]), Reversed(TableOf(ran[k][1]))})
        => /\ file = Final(reversed, 1, source)
           /\ (Len(ran) = 2 /\ ran[1][1] # ran[2][1])
                => file = Final(opposite, 1, source)
=============================================================================
